---- MODULE Spec2Model ----
(***************************************************************************)
(* dataclass-click: the declaration-time resolution pipeline               *)
(* (_collect_click_annotations, _patch_names, _patch_click_types,          *)
(* _patch_required), the process-wide type-inference registry              *)
(* (register_type_inference) and the record-construction wrapper, modelled *)
(* from src/dataclass_click/dataclass_click.py.                            *)
(*                                                                         *)
(* Python objects that the code mutates in place (_DelayedCall objects and *)
(* their kwargs dicts) live in two heaps, `calls` and `dicts`, addressed   *)
(* by references, so that sharing between a class's annotations and a      *)
(* decoration's Field Table is something the model can express.            *)
(*                                                                         *)
(* Strings whose characters the code inspects (field names, option names)  *)
(* are sequences of one-character strings.                                 *)
(***************************************************************************)
EXTENDS Integers, Sequences, FiniteSets, TLC

VARIABLES
    cls,       \* the record type: its fields in declaration order
    calls,     \* heap of _DelayedCall objects: ref -> [callable, args, kwargs]
    dicts,     \* heap of kwargs dicts: ref -> (keyword -> value)
    registry,  \* _TYPE_INFERENCE, the process-wide registry
    decs,      \* the decorations made so far (closures of dataclass_click)
    last       \* the last operation: its inputs and its outcome

vars == <<cls, calls, dicts, registry, decs, last>>

----------------------------------------------------------------------------
(* Bounds of the model *)

\* how many decorations of the record type stay alive together
MaxDecorations == 2
\* how many positional arguments an invocation of the wrapper receives
MaxPosArgs == 2

----------------------------------------------------------------------------
(* Values *)

\* a Python dict with no entries
EmptyDict == [x \in {} |-> TRUE]

\* runtime values: plain values, and the object a factory returns
Value(tag) == [tag |-> tag, by |-> "", of |-> EmptyDict]
None == Value("None")
\* DontPassType.DONT_PASS: an enum member, a value distinct from None
DONT_PASS == Value("DONT_PASS")

OPTION == "click.option"
ARGUMENT == "click.argument"

\* field and option names, as character sequences
foo == <<"f", "o", "o">>
Ba_z == <<"B", "a", "_", "z">>
extra == <<"e", "x", "t", "r", "a">>
cfg == <<"c", "f", "g">>
dd_bob == <<"-", "-", "b", "o", "b">>
plus_w == <<"+", "w">>
on_off == <<"-", "-", "o", "n", "/", "-", "-", "o", "f", "f">>

\* str.startswith
StartsWith(name, prefix) ==
    /\ Len(name) >= Len(prefix)
    /\ SubSeq(name, 1, Len(prefix)) = prefix

\* str.lower, on the characters the model's names use
LowerChar(c) ==
    CASE c = "B" -> "b"
      [] c = "F" -> "f"
      [] c = "Z" -> "z"
      [] OTHER -> c

\* str.replace("_", "-"), one character
ReplaceChar(c) == IF c = "_" THEN "-" ELSE c

\* _option_name: "--" + attribute_name.lower().replace("_", "-")
_option_name(attribute_name) ==
    <<"-", "-">> \o
    [i \in 1..Len(attribute_name) |-> ReplaceChar(LowerChar(attribute_name[i]))]

----------------------------------------------------------------------------
(* Type hints.  typing.get_origin is the origin field, typing.get_args the *)
(* args field.  A union (types.UnionType, `X | Y`) compares equal whatever *)
(* the order of its members; the model writes every union with its members *)
(* in one fixed order, so equality of the args sequences is that equality. *)

Atom(n) == [origin |-> "none", name |-> n, args |-> <<>>]
UnionOf(a) == [origin |-> "union", name |-> "union", args |-> a]
TupleOf(a) == [origin |-> "tuple", name |-> "tuple", args |-> a]
ListOf(a) == [origin |-> "list", name |-> "list", args |-> a]

T_int == Atom("int")
T_str == Atom("str")
T_float == Atom("float")
T_bool == Atom("bool")
T_UUID == Atom("UUID")
T_datetime == Atom("datetime")
T_Path == Atom("Path")
T_Decimal == Atom("Decimal")
NoneType == Atom("NoneType")
Ellipsis == Atom("Ellipsis")

\* functools.reduce(operator.or_, args), for two or more distinct members
ReduceOr(a) == UnionOf(a)

\* _strip_optional that leaves the union as it is
_strip_optional_mutant(attribute_type) ==
    [is_optional |-> attribute_type.origin = "union" /\
                     \E i \in 1..Len(attribute_type.args) :
                         attribute_type.args[i] = NoneType,
     hint |-> attribute_type]

\* _strip_optional: (is_optional, the hint without NoneType)
_strip_optional(attribute_type) ==
    IF attribute_type.origin = "union"
    THEN LET args == attribute_type.args
             rest == SelectSeq(args, LAMBDA a : a # NoneType)
         IN  IF \E i \in 1..Len(args) : args[i] = NoneType
             THEN IF Len(rest) = 1
                  THEN [is_optional |-> TRUE, hint |-> rest[1]]
                  ELSE [is_optional |-> TRUE, hint |-> ReduceOr(rest)]
             ELSE [is_optional |-> FALSE, hint |-> attribute_type]
    ELSE [is_optional |-> FALSE, hint |-> attribute_type]

----------------------------------------------------------------------------
(* Parameter types (click.ParamType) and the registry *)

\* a Binding's `type` keyword: one parameter type, or a tuple of them
Scalar(p) == [tuple |-> FALSE, of |-> <<p>>]
Tuple(ps) == [tuple |-> TRUE, of |-> ps]

\* _TYPE_INFERENCE as the module defines it
BuiltinInference ==
    (T_int :> "INT") @@ (T_str :> "STRING") @@ (T_float :> "FLOAT") @@
    (T_bool :> "BOOL") @@ (T_UUID :> "UUID") @@ (T_datetime :> "DateTime") @@
    (T_Path :> "Path")

\* dict.pop(key, None)
DictPop(d, k) == [x \in DOMAIN d \ {k} |-> d[x]]
\* d[key] = value
DictSet(d, k, v) == [x \in DOMAIN d \cup {k} |-> IF x = k THEN v ELSE d[x]]
\* d.update(other)
DictUpdate(d, other) ==
    [x \in DOMAIN d \cup DOMAIN other |-> IF x \in DOMAIN other THEN other[x] ELSE d[x]]

----------------------------------------------------------------------------
(* The trial parameter object.  click.core.Option(args, **kwargs) and      *)
(* click.core.Argument(args, **kwargs) belong to the CLI engine; the model *)
(* keeps the three attributes the code reads: is_flag, multiple, nargs.    *)
(* An option is a boolean flag when is_flag is passed as true, or, when    *)
(* is_flag is not passed, when one of its names declares a secondary name  *)
(* ("--on/--off").  An argument has no is_flag and is never `multiple`.    *)

HasSecondary(name) == \E i \in 1..Len(name) : name[i] = "/"

KwGet(kwargs, k, dflt) == IF k \in DOMAIN kwargs THEN kwargs[k] ELSE dflt

StubOption(args, kwargs) ==
    [is_flag |-> IF "is_flag" \in DOMAIN kwargs
                 THEN kwargs["is_flag"]
                 ELSE \E i \in 1..Len(args) : HasSecondary(args[i]),
     multiple |-> KwGet(kwargs, "multiple", FALSE),
     nargs |-> KwGet(kwargs, "nargs", 1)]

StubArgument(args, kwargs) ==
    [is_flag |-> FALSE,
     multiple |-> FALSE,
     nargs |-> KwGet(kwargs, "nargs", 1)]

----------------------------------------------------------------------------
(* The heap.  A reference is <<slot, field, position>>: slot 0 holds the   *)
(* _DelayedCall objects written in the class body (position: the place in  *)
(* the Annotated metadata), slot d >= 1 the objects decoration d created.  *)

Heap(c, d) == [calls |-> c, dicts |-> d]

\* the objects of one slot
SlotRefs(H, slot) == {r \in DOMAIN H.calls : r[1] = slot}

\* what is left of the heap when the objects of `slot` are unreachable
DropSlot(H, slot) ==
    [calls |-> [r \in DOMAIN H.calls \ SlotRefs(H, slot) |-> H.calls[r]],
     dicts |-> [r \in {x \in DOMAIN H.dicts : x[1] # slot} |-> H.dicts[r]]]

\* the keyword arguments of the _DelayedCall at ref
KwargsOf(H, ref) == H.dicts[H.calls[ref].kwargs]

----------------------------------------------------------------------------
(* Field Scanner *)

\* the first _DelayedCall among a field's Annotated metadata, 0 for none
FirstCall(field) ==
    IF field.annotated /\ \E j \in 1..Len(field.meta) : field.meta[j].is_call
    THEN CHOOSE j \in 1..Len(field.meta) :
            /\ field.meta[j].is_call
            /\ \A i \in 1..(j - 1) : ~field.meta[i].is_call
    ELSE 0

\* the fields that carry a Binding, in declaration order
BoundFields(c) ==
    SelectSeq([i \in 1..Len(c) |-> i], LAMBDA i : FirstCall(c[i]) # 0)

\* the mapping before the copy: key -> the annotation's own object
FoundAnnotations(c) ==
    LET idx == BoundFields(c)
    IN  [k \in 1..Len(idx) |->
            [key |-> c[idx[k]].name,
             field |-> idx[k],
             ref |-> c[idx[k]].meta[FirstCall(c[idx[k]])].ref]]

_collect_click_annotations_mutant(H, c, slot) ==
    [heap |-> H, table |-> FoundAnnotations(c)]

\* _collect_click_annotations: every Binding found is replaced by a new
\* _DelayedCall with the same callable and args and a copy of the kwargs
_collect_click_annotations(H, c, slot) ==
    LET found == FoundAnnotations(c)
        new(k) == <<slot, found[k].field, 0>>
        news == {new(k) : k \in 1..Len(found)}
        src(r) == found[CHOOSE k \in 1..Len(found) : new(k) = r].ref
    IN  [heap |->
            [calls |-> [r \in DOMAIN H.calls \cup news |->
                           IF r \in news
                           THEN [callable |-> H.calls[src(r)].callable,
                                 args |-> H.calls[src(r)].args,
                                 kwargs |-> r]
                           ELSE H.calls[r]],
             dicts |-> [r \in DOMAIN H.dicts \cup news |->
                           IF r \in news
                           THEN H.dicts[H.calls[src(r)].kwargs]
                           ELSE H.dicts[r]]],
         table |-> [k \in 1..Len(found) |->
                       [key |-> found[k].key, field |-> found[k].field, ref |-> new(k)]]]

----------------------------------------------------------------------------
(* Name Resolver *)

\* the prefix line 163 tests every existing name for: the literal ""
FlagPrefix == <<>>

\* what one pass of the loop of _patch_names assigns to annotation.args
PatchedArgs(key, callable, args) ==
    LET named == IF /\ callable = OPTION
                    /\ ~\E n \in 1..Len(args) : StartsWith(args[n], FlagPrefix)
                 THEN <<_option_name(key)>> \o args
                 ELSE args
    IN  <<key>> \o named

RECURSIVE PatchNamesLoop(_, _, _)
PatchNamesLoop(H, table, k) ==
    IF k > Len(table)
    THEN H
    ELSE LET ref == table[k].ref
             obj == H.calls[ref]
         IN  PatchNamesLoop(
                 [H EXCEPT !.calls[ref].args =
                     PatchedArgs(table[k].key, obj.callable, obj.args)],
                 table, k + 1)

\* _patch_names
_patch_names(H, table) == PatchNamesLoop(H, table, 1)

----------------------------------------------------------------------------
(* Type Inference Engine *)

Return(v) == [raised |-> FALSE, value |-> v]
\* raise TypeError("Could not infer ParamType for {key} ...")
RaiseTypeError == [raised |-> TRUE, value |-> Scalar("")]

\* _eval_type without the shape test of a repeated parameter
_eval_type_mutant(hint, stub, inferences) ==
    IF stub.nargs > 1
    THEN IF hint.origin = "tuple"
         THEN IF \A i \in 1..Len(hint.args) : hint.args[i] \in DOMAIN inferences
              THEN Return(Tuple([i \in 1..Len(hint.args) |-> inferences[hint.args[i]]]))
              ELSE RaiseTypeError
         ELSE RaiseTypeError
    ELSE IF hint \in DOMAIN inferences
         THEN Return(Scalar(inferences[hint]))
         ELSE RaiseTypeError

\* _eval_type.  inferences[x] raises KeyError when x is no key, which the
\* except clause turns into the TypeError of line 218; a `nargs > 1` stub
\* whose hint is no tuple falls out of the try block to the same line.
_eval_type(hint, stub, inferences) ==
    LET variadic == stub.multiple \/ stub.nargs = -1
        repeated == /\ hint.origin = "tuple"
                    /\ Len(hint.args) = 2
                    /\ hint.args[2] = Ellipsis
        h == IF variadic /\ repeated THEN hint.args[1] ELSE hint
    IN  IF variadic /\ ~repeated
        THEN RaiseTypeError
        ELSE IF stub.nargs > 1
             THEN IF h.origin = "tuple"
                  THEN IF \A i \in 1..Len(h.args) : h.args[i] \in DOMAIN inferences
                       THEN Return(Tuple([i \in 1..Len(h.args) |-> inferences[h.args[i]]]))
                       ELSE RaiseTypeError
                  ELSE RaiseTypeError
             ELSE IF h \in DOMAIN inferences
                  THEN Return(Scalar(inferences[h]))
                  ELSE RaiseTypeError

\* `inferences`, `kw_name`: an optional argument is [given, value]
NotGiven == [given |-> FALSE, value |-> <<>>]
Given(v) == [given |-> TRUE, value |-> v]

CompleteTypeInferences_mutant(reg, inferences) ==
    IF inferences.given
    THEN [complete |-> DictUpdate(reg, inferences.value),
          global |-> DictUpdate(reg, inferences.value)]
    ELSE [complete |-> reg, global |-> reg]

\* lines 177-181: the registry the resolution consults, and _TYPE_INFERENCE
\* as those lines leave it
CompleteTypeInferences(reg, inferences) ==
    IF inferences.given
    THEN [complete |-> DictUpdate(reg, inferences.value), global |-> reg]
    ELSE [complete |-> reg, global |-> reg]

\* the trial parameter built from a Binding's current arguments
StubOf(obj, kwargs) ==
    IF obj.callable = OPTION
    THEN StubOption(obj.args, kwargs)
    ELSE StubArgument(obj.args, kwargs)

NeedsInference_mutant(obj, kwargs) == "type" \notin DOMAIN kwargs

\* lines 187-192: whether the loop of _patch_click_types infers a type
NeedsInference(obj, kwargs) ==
    /\ "type" \notin DOMAIN kwargs
    /\ ~(obj.callable = OPTION /\ StubOption(obj.args, kwargs).is_flag)

RECURSIVE PatchClickTypesLoop(_, _, _, _, _)
PatchClickTypesLoop(H, c, table, complete, k) ==
    IF k > Len(table)
    THEN [heap |-> H, raised |-> FALSE, key |-> <<>>]
    ELSE LET ref == table[k].ref
             obj == H.calls[ref]
             kwargs == H.dicts[obj.kwargs]
             hint == _strip_optional(c[table[k].field].hint).hint
             res == _eval_type(hint, StubOf(obj, kwargs), complete)
         IN  IF ~NeedsInference(obj, kwargs)
             THEN PatchClickTypesLoop(H, c, table, complete, k + 1)
             ELSE IF res.raised
                  THEN [heap |-> H, raised |-> TRUE, key |-> table[k].key]
                  ELSE PatchClickTypesLoop(
                           [H EXCEPT !.dicts[obj.kwargs] =
                               DictSet(kwargs, "type", res.value)],
                           c, table, complete, k + 1)

\* _patch_click_types, given the registry it consults
_patch_click_types(H, c, table, complete) ==
    PatchClickTypesLoop(H, c, table, complete, 1)

----------------------------------------------------------------------------
(* Requiredness Resolver *)

InfersRequired_mutant(is_optional, obj, kwargs) ==
    /\ ~is_optional
    /\ obj.callable = OPTION
    /\ "required" \notin DOMAIN kwargs
    /\ ~StubOption(obj.args, kwargs).is_flag
    /\ ~StubOption(obj.args, kwargs).multiple

\* lines 233-240: whether the loop of _patch_required sets required=True
InfersRequired(is_optional, obj, kwargs) ==
    /\ ~is_optional
    /\ obj.callable = OPTION
    /\ "required" \notin DOMAIN kwargs /\ "default" \notin DOMAIN kwargs
    /\ ~StubOption(obj.args, kwargs).is_flag
    /\ ~StubOption(obj.args, kwargs).multiple

RECURSIVE PatchRequiredLoop(_, _, _, _)
PatchRequiredLoop(H, c, table, k) ==
    IF k > Len(table)
    THEN H
    ELSE LET obj == H.calls[table[k].ref]
             kwargs == H.dicts[obj.kwargs]
             is_optional == _strip_optional(c[table[k].field].hint).is_optional
         IN  IF InfersRequired(is_optional, obj, kwargs)
             THEN PatchRequiredLoop(
                      [H EXCEPT !.dicts[obj.kwargs] = DictSet(kwargs, "required", TRUE)],
                      c, table, k + 1)
             ELSE PatchRequiredLoop(H, c, table, k + 1)

\* _patch_required
_patch_required(H, c, table) == PatchRequiredLoop(H, c, table, 1)

----------------------------------------------------------------------------
(* dataclass_click(arg_class, kw_name=, type_inferences=, factory=)         *)

\* factory=None
NoFactory == "None"

\* lines 145-150.  The result: the heap and the registry as the call leaves
\* them, whether it raised (and for which field), and the closure the
\* returned decorator holds.  A call that raises leaves the objects it
\* created unreachable.
dataclass_click(H, reg, c, slot, kw_name, type_inferences, factory) ==
    LET factory_ == IF factory # NoFactory THEN factory ELSE "arg_class"
        collected == _collect_click_annotations(H, c, slot)
        annotations == collected.table
        named == _patch_names(collected.heap, annotations)
        inf == CompleteTypeInferences(reg, type_inferences)
        typed == _patch_click_types(named, c, annotations, inf.complete)
        required == _patch_required(typed.heap, c, annotations)
    IN  IF typed.raised
        THEN [heap |-> DropSlot(typed.heap, slot), registry |-> inf.global,
              raised |-> TRUE, key |-> typed.key,
              closure |-> [annotations |-> <<>>, kw_name |-> kw_name,
                           factory_ |-> factory_]]
        ELSE [heap |-> required, registry |-> inf.global,
              raised |-> FALSE, key |-> <<>>,
              closure |-> [annotations |-> annotations, kw_name |-> kw_name,
                           factory_ |-> factory_]]

----------------------------------------------------------------------------
(* register_type_inference(python_type, click_param_type, override_okay=)   *)

\* click_param_type=None
NoParamType == "None"

register_type_inference_unguarded(reg, python_type, click_param_type, override_okay) ==
    IF ~override_okay /\ python_type \in DOMAIN reg /\ click_param_type # NoParamType
    THEN [registry |-> reg, raised |-> "ValueError"]
    ELSE IF _strip_optional(python_type).is_optional
         THEN [registry |-> reg, raised |-> "NotImplementedError"]
         ELSE IF click_param_type = NoParamType
              THEN [registry |-> DictPop(reg, python_type), raised |-> ""]
              ELSE [registry |-> DictSet(reg, python_type, click_param_type),
                    raised |-> ""]

register_type_inference_mutant(reg, python_type, click_param_type, override_okay) ==
    IF ~override_okay /\ python_type \in DOMAIN reg
    THEN [registry |-> reg, raised |-> "ValueError"]
    ELSE IF click_param_type = NoParamType
         THEN [registry |-> DictPop(reg, python_type), raised |-> ""]
         ELSE [registry |-> DictSet(reg, python_type, click_param_type), raised |-> ""]

\* lines 311-321
register_type_inference(reg, python_type, click_param_type, override_okay) ==
    IF ~override_okay /\ python_type \in DOMAIN reg
    THEN [registry |-> reg, raised |-> "ValueError"]
    ELSE IF _strip_optional(python_type).is_optional
         THEN [registry |-> reg, raised |-> "NotImplementedError"]
         ELSE IF click_param_type = NoParamType
              THEN [registry |-> DictPop(reg, python_type), raised |-> ""]
              ELSE [registry |-> DictSet(reg, python_type, click_param_type),
                    raised |-> ""]

----------------------------------------------------------------------------
(* decorator(func): lines 139-143 *)

\* the parameter one declaration function adds to the function it wraps
ParamOf(H, entry) ==
    [callable |-> H.calls[entry.ref].callable,
     args |-> H.calls[entry.ref].args,
     kwargs |-> KwargsOf(H, entry.ref)]

\* the loop of lines 139-141.  Each declaration function appends its
\* parameter to the list the wrapped function carries (functools.wraps hands
\* func's list to the wrapper), so the list is in order of application:
\* innermost declaration first.
decorator(H, annotations, func_params) ==
    func_params \o [k \in 1..Len(annotations) |-> ParamOf(H, annotations[k])]

Reverse(seq) == [i \in 1..Len(seq) |-> seq[Len(seq) + 1 - i]]

\* the engine lists a command's parameters outermost declaration first
CommandParams(click_params) == Reverse(click_params)

----------------------------------------------------------------------------
(* The Record-Construction Wrapper: lines 124-137 *)

\* the call of factory_ at line 132: a factory accepts what it is given; the
\* record type's own constructor raises when a field without a default is
\* not passed
Construct(c, factory_, arg_class_args) ==
    IF /\ factory_ = "arg_class"
       /\ \E i \in 1..Len(c) : ~c[i].has_default /\ c[i].name \notin DOMAIN arg_class_args
    THEN [raised |-> TRUE, object |-> None]
    ELSE [raised |-> FALSE,
          object |-> [tag |-> "object", by |-> factory_, of |-> arg_class_args]]

\* lines 125-130: the keys the loop moves out of kwargs
ArgClassArgs_mutant(annotations, kwargs) ==
    LET keys == {annotations[k].key : k \in 1..Len(annotations)}
    IN  [x \in {y \in keys \cap DOMAIN kwargs : kwargs[y] # DONT_PASS /\ kwargs[y] # None}
            |-> kwargs[x]]

ArgClassArgs(annotations, kwargs) ==
    LET keys == {annotations[k].key : k \in 1..Len(annotations)}
    IN  [x \in {y \in keys \cap DOMAIN kwargs : kwargs[y] # DONT_PASS} |-> kwargs[x]]

\* lines 126-128: kwargs after every key of the Field Table is popped
Popped(annotations, kwargs) ==
    LET keys == {annotations[k].key : k \in 1..Len(annotations)}
    IN  [x \in DOMAIN kwargs \ keys |-> kwargs[x]]

Inject_mutant(kw_name, object, args, kwargs) ==
    IF kw_name.given
    THEN [args |-> <<object>> \o args, kwargs |-> DictSet(kwargs, kw_name.value, object)]
    ELSE [args |-> <<object>> \o args, kwargs |-> kwargs]

\* lines 133-136
Inject(kw_name, object, args, kwargs) ==
    IF kw_name.given
    THEN [args |-> args, kwargs |-> DictSet(kwargs, kw_name.value, object)]
    ELSE [args |-> <<object>> \o args, kwargs |-> kwargs]

\* the whole wrapper: what the factory and func were called with, and what
\* the wrapper returns; func returns func_ret
wrapper(c, closure, args, kwargs, func_ret) ==
    LET arg_class_args == ArgClassArgs(closure.annotations, kwargs)
        built == Construct(c, closure.factory_, arg_class_args)
        passed == Inject(closure.kw_name, built.object, args,
                         Popped(closure.annotations, kwargs))
    IN  IF built.raised
        THEN [raised |-> TRUE, factory_kwargs |-> arg_class_args,
              func_called |-> FALSE, func_args |-> <<>>, func_kwargs |-> EmptyDict,
              returned |-> None]
        ELSE [raised |-> FALSE, factory_kwargs |-> arg_class_args,
              func_called |-> TRUE, func_args |-> passed.args,
              func_kwargs |-> passed.kwargs, returned |-> func_ret]

----------------------------------------------------------------------------
(* Record types the model declares.  A field is declared with its name,    *)
(* its hint, whether the record type gives it a default, and the metadata  *)
(* of its Annotated form (none: the field is not annotated).  Every        *)
(* Binding is one the engine accepts: an option with is_flag=True is       *)
(* neither `multiple` nor of arity 2, an argument takes no names.          *)

Call(callable, args, kwargs) ==
    [is_call |-> TRUE, callable |-> callable, args |-> args, kwargs |-> kwargs]
\* metadata that is no _DelayedCall
Other == [is_call |-> FALSE, callable |-> "", args |-> <<>>, kwargs |-> EmptyDict]

Decl(name, hint, has_default, meta) ==
    [name |-> name, hint |-> hint, has_default |-> has_default, meta |-> meta]

option(args, kwargs) == Call(OPTION, args, kwargs)
argument(kwargs) == Call(ARGUMENT, <<>>, kwargs)

\* the class object: its fields, each with references to its metadata
ClassOf(decls) ==
    [i \in 1..Len(decls) |->
        [name |-> decls[i].name,
         hint |-> decls[i].hint,
         has_default |-> decls[i].has_default,
         annotated |-> Len(decls[i].meta) > 0,
         meta |-> [j \in 1..Len(decls[i].meta) |->
                      [is_call |-> decls[i].meta[j].is_call, ref |-> <<0, i, j>>]]]]

\* the _DelayedCall objects the class body created
DeclaredRefs(decls) ==
    UNION {{<<0, i, j>> : j \in {m \in 1..Len(decls[i].meta) : decls[i].meta[m].is_call}} :
              i \in 1..Len(decls)}

DeclaredCalls(decls) ==
    [r \in DeclaredRefs(decls) |->
        [callable |-> decls[r[2]].meta[r[3]].callable,
         args |-> decls[r[2]].meta[r[3]].args,
         kwargs |-> r]]

DeclaredDicts(decls) ==
    [r \in DeclaredRefs(decls) |-> decls[r[2]].meta[r[3]].kwargs]

\* keyword arguments: one choice per keyword, merged
TypeKw == {EmptyDict, "type" :> Scalar("INT")}
RequiredKw == {EmptyDict, "required" :> TRUE, "required" :> FALSE}
DefaultKw == {EmptyDict, "default" :> Value("10")}
FlagKw == {EmptyDict, "is_flag" :> TRUE, "is_flag" :> FALSE}
ShapeKw == {EmptyDict, "multiple" :> TRUE, "nargs" :> 2,
            ("multiple" :> TRUE) @@ ("nargs" :> 2)}
ArgShapeKw == {EmptyDict, "nargs" :> 2, "nargs" :> -1}

OptionKwargs ==
    {k \in {t @@ r @@ d @@ f @@ s :
              t \in TypeKw, r \in RequiredKw, d \in DefaultKw, f \in FlagKw, s \in ShapeKw} :
        ("is_flag" \in DOMAIN k /\ k["is_flag"]) => DOMAIN k \cap {"multiple", "nargs"} = {}}

ArgumentKwargs ==
    {t @@ r @@ s : t \in TypeKw, r \in {EmptyDict, "required" :> FALSE}, s \in ArgShapeKw}

\* hints
Optional(h) == UnionOf(<<h, NoneType>>)
int_or_str == UnionOf(<<T_int, T_str>>)
ScalarHints == {T_int, Optional(T_int), T_Decimal}
ShapedHints ==
    {TupleOf(<<T_int, Ellipsis>>),
     Optional(TupleOf(<<T_int, Ellipsis>>)),
     TupleOf(<<T_int, T_str>>),
     TupleOf(<<T_int, T_str, T_int>>),
     TupleOf(<<T_int, T_Decimal>>),
     TupleOf(<<TupleOf(<<T_int, T_str>>), Ellipsis>>),
     ListOf(<<T_int>>),
     int_or_str,
     UnionOf(<<T_int, T_str, NoneType>>)}

\* the names an option is declared with: none, a long name, a name with
\* another prefix character, a short and a long name, a name with a
\* secondary name
dash_b == <<"-", "b">>
OptionNames == {<<>>, <<dd_bob>>, <<plus_w>>, <<dash_b, dd_bob>>, <<on_off>>}

OneField(d) == <<d>>

\* one field, every combination of keywords, on the scalar hints
KeywordClasses ==
    {OneField(Decl(foo, h, TRUE, <<option(<<>>, k)>>)) : h \in ScalarHints, k \in OptionKwargs}
    \cup
    {OneField(Decl(foo, h, TRUE, <<argument(k)>>)) : h \in ScalarHints, k \in ArgumentKwargs}

\* one field, the tuple, list and union hints, without an explicit type
ShapeClasses ==
    {OneField(Decl(foo, h, TRUE, <<option(<<>>, d @@ s)>>)) :
        h \in ShapedHints, d \in DefaultKw, s \in ShapeKw}
    \cup
    {OneField(Decl(foo, h, TRUE, <<argument(s)>>)) : h \in ShapedHints, s \in ArgShapeKw}

\* one field, every way of naming an option
NameClasses ==
    {OneField(Decl(n, h, TRUE, <<option(a, t)>>)) :
        n \in {foo, Ba_z}, h \in {T_int, T_bool}, a \in OptionNames, t \in TypeKw}

\* several fields; an inherited field comes first, as get_type_hints lists it
FieldClasses ==
    {<<Decl(foo, T_int, FALSE, <<option(<<>>, EmptyDict)>>),
       Decl(Ba_z, h, TRUE, <<option(<<>>, k)>>)>> :
        h \in {T_str, T_Decimal}, k \in {EmptyDict, "default" :> Value("10")}}
    \cup
    {<<Decl(foo, T_Decimal, FALSE, <<argument(EmptyDict)>>),
       Decl(Ba_z, Optional(T_int), TRUE, <<option(<<dd_bob>>, EmptyDict)>>)>>,
     <<Decl(foo, T_int, TRUE, <<>>),
       Decl(Ba_z, T_int, FALSE, <<Other, option(<<>>, EmptyDict), option(<<dd_bob>>, EmptyDict)>>)>>,
     <<Decl(foo, T_str, FALSE, <<argument(EmptyDict)>>),
       Decl(Ba_z, T_int, FALSE, <<argument(EmptyDict)>>),
       Decl(extra, T_int, TRUE, <<Other>>)>>}

----------------------------------------------------------------------------
(* Inputs of the operations *)

\* register_type_inference
RegTypes == {T_int, T_Decimal, int_or_str, Optional(T_int)}
RegParamTypes == {NoParamType, "CUSTOM"}

\* type_inferences=
Overrides ==
    {NotGiven, Given(T_int :> "OVERRIDE"), Given(T_Decimal :> "DECIMAL")}

\* kw_name=, factory=
KwNames == {NotGiven, Given(cfg), Given(extra), Given(foo)}
Factories == {NoFactory, "make_config"}

\* what the engine hands the wrapper
Values == {None, DONT_PASS, Value("v")}
\* keyword sets over the names of the record type's fields and one more name
KwargSets(c) ==
    UNION {[S -> Values] : S \in SUBSET ({c[i].name : i \in 1..Len(c)} \cup {extra})}
\* positional arguments, each different from the others
Positional(i) == [tag |-> "positional", by |-> "", of |-> (i :> TRUE)]
PosArgs == {[i \in 1..n |-> Positional(i)] : n \in 0..MaxPosArgs}

\* the parameters func carries before the decorator is applied to it
FuncParams ==
    {<<>>, <<[callable |-> OPTION, args |-> <<extra, <<"-", "-", "x">> >>, kwargs |-> EmptyDict]>>}

----------------------------------------------------------------------------
(* Operations *)

NewDecoration(closure) ==
    [closure |-> closure, applied |-> FALSE, click_params |-> <<>>]

\* dataclass_click(cls, kw_name=, type_inferences=, factory=)
DataclassClick(kw_name, type_inferences, factory) ==
    /\ Len(decs) < MaxDecorations
    /\ LET slot == Len(decs) + 1
           r == dataclass_click(Heap(calls, dicts), registry, cls, slot,
                                kw_name, type_inferences, factory)
       IN  /\ calls' = r.heap.calls
           /\ dicts' = r.heap.dicts
           /\ registry' = r.registry
           /\ decs' = IF r.raised THEN decs ELSE Append(decs, NewDecoration(r.closure))
           /\ last' = [op |-> "dataclass_click", slot |-> slot, kw_name |-> kw_name,
                       type_inferences |-> type_inferences, factory |-> factory,
                       raised |-> IF r.raised THEN "TypeError" ELSE "",
                       key |-> r.key]
    /\ UNCHANGED cls

\* register_type_inference(python_type, click_param_type, override_okay=)
RegisterTypeInference(python_type, click_param_type, override_okay) ==
    /\ LET r == register_type_inference(registry, python_type, click_param_type,
                                        override_okay)
       IN  /\ registry' = r.registry
           /\ last' = [op |-> "register_type_inference", python_type |-> python_type,
                       click_param_type |-> click_param_type,
                       override_okay |-> override_okay, raised |-> r.raised]
    /\ UNCHANGED <<cls, calls, dicts, decs>>

\* decorator(func), for the decorator decoration d returned
Decorator(d, func_params) ==
    /\ d \in 1..Len(decs)
    /\ ~decs[d].applied
    /\ decs' = [decs EXCEPT
                   ![d].applied = TRUE,
                   ![d].click_params =
                       decorator(Heap(calls, dicts), decs[d].closure.annotations,
                                 func_params)]
    /\ last' = [op |-> "decorator", slot |-> d, func_params |-> func_params]
    /\ UNCHANGED <<cls, calls, dicts, registry>>

\* one invocation of the wrapper decoration d built
Wrapper(d, args, kwargs, func_ret) ==
    /\ d \in 1..Len(decs)
    /\ decs[d].applied
    /\ last' = [op |-> "wrapper", slot |-> d, args |-> args, kwargs |-> kwargs,
                func_ret |-> func_ret,
                result |-> wrapper(cls, decs[d].closure, args, kwargs, func_ret)]
    /\ UNCHANGED <<cls, calls, dicts, registry, decs>>

----------------------------------------------------------------------------
(* Specifications *)

\* the state once the module is imported and the record type is declared
Declared(decls, reg) ==
    /\ cls = ClassOf(decls)
    /\ calls = DeclaredCalls(decls)
    /\ dicts = DeclaredDicts(decls)
    /\ registry = reg
    /\ decs = <<>>
    /\ last = [op |-> "init"]

\* Spec: registrations and decorations in any order
MainClasses ==
    {OneField(Decl(foo, h, TRUE, <<m>>)) :
        h \in {T_int, T_Decimal},
        m \in {option(<<>>, k) : k \in {EmptyDict, "type" :> Scalar("INT"),
                                        "is_flag" :> TRUE}}
              \cup {argument(EmptyDict)}}
    \cup {OneField(Decl(foo, h, TRUE, <<option(<<>>, EmptyDict)>>)) :
             h \in {int_or_str, Optional(T_Decimal)}}
    \cup {OneField(Decl(foo, TupleOf(<<T_Decimal, Ellipsis>>), TRUE,
                        <<option(<<>>, "multiple" :> TRUE)>>)),
          OneField(Decl(foo, T_Decimal, TRUE, <<option(<<>>, "multiple" :> TRUE)>>)),
          <<Decl(foo, T_int, FALSE, <<option(<<>>, EmptyDict)>>),
            Decl(Ba_z, T_Decimal, TRUE, <<option(<<>>, EmptyDict)>>)>>,
          <<Decl(foo, T_Decimal, FALSE, <<argument(EmptyDict)>>),
            Decl(Ba_z, Optional(T_int), TRUE, <<option(<<dd_bob>>, EmptyDict)>>)>>}

Init == \E decls \in MainClasses : Declared(decls, BuiltinInference)

Next ==
    \/ \E t \in RegTypes, p \in RegParamTypes, o \in BOOLEAN :
          RegisterTypeInference(t, p, o)
    \/ \E ti \in Overrides : DataclassClick(NotGiven, ti, NoFactory)

Spec == Init /\ [][Next]_vars

\* SpecResolve: the resolution of every declared record type, under the
\* registries that registrations leave behind
ResolveClasses == KeywordClasses \cup ShapeClasses \cup NameClasses \cup FieldClasses

ResolveRegistries ==
    {BuiltinInference,
     DictSet(BuiltinInference, T_Decimal, "CUSTOM"),
     DictSet(BuiltinInference, int_or_str, "CUSTOM"),
     DictPop(BuiltinInference, T_int)}

InitResolve ==
    \E decls \in ResolveClasses, reg \in ResolveRegistries : Declared(decls, reg)

NextResolve == \E ti \in Overrides : DataclassClick(NotGiven, ti, NoFactory)

SpecResolve == InitResolve /\ [][NextResolve]_vars

\* SpecWrap: a decorator that dataclass_click returned, applied and invoked
WrapClasses ==
    {OneField(Decl(foo, Optional(T_int), TRUE, <<option(<<>>, EmptyDict)>>)),
     OneField(Decl(foo, T_str, FALSE, <<argument(EmptyDict)>>)),
     <<Decl(foo, T_int, FALSE, <<option(<<>>, EmptyDict)>>),
       Decl(Ba_z, T_str, TRUE, <<option(<<dd_bob>>, EmptyDict)>>)>>,
     <<Decl(foo, T_str, FALSE, <<argument(EmptyDict)>>),
       Decl(Ba_z, T_int, FALSE, <<argument(EmptyDict)>>),
       Decl(extra, T_int, TRUE, <<Other>>)>>}

InitWrap ==
    \E decls \in WrapClasses, kw_name \in KwNames, factory \in Factories :
        LET r == dataclass_click(Heap(DeclaredCalls(decls), DeclaredDicts(decls)),
                                 BuiltinInference, ClassOf(decls), 1,
                                 kw_name, NotGiven, factory)
        IN  /\ ~r.raised
            /\ cls = ClassOf(decls)
            /\ calls = r.heap.calls
            /\ dicts = r.heap.dicts
            /\ registry = r.registry
            /\ decs = <<NewDecoration(r.closure)>>
            /\ last = [op |-> "dataclass_click", slot |-> 1, kw_name |-> kw_name,
                       type_inferences |-> NotGiven, factory |-> factory,
                       raised |-> "", key |-> <<>>]

NextWrap ==
    \/ \E d \in 1..Len(decs), fp \in FuncParams : Decorator(d, fp)
    \/ \E d \in 1..Len(decs), a \in PosArgs, k \in KwargSets(cls) :
          Wrapper(d, a, k, Value("result"))

SpecWrap == InitWrap /\ [][NextWrap]_vars

----------------------------------------------------------------------------
(* Vocabulary of the properties *)

\* the Binding the user declared for field i, as the class holds it now
DeclaredRef(i) == cls[i].meta[FirstCall(cls[i])].ref
DeclaredCall(i) == calls[DeclaredRef(i)]
DeclaredKwargs(i) == dicts[DeclaredCall(i).kwargs]

\* the Binding a decoration resolved for an entry of its Field Table
ResolvedCall(e) == calls[e.ref]
ResolvedKwargs(e) == dicts[calls[e.ref].kwargs]

\* the entries of the Field Table of decoration d
Entries(d) ==
    {decs[d].closure.annotations[k] : k \in 1..Len(decs[d].closure.annotations)}

\* a hint that is a union with None
IsUnionWithNone(h) ==
    h.origin = "union" /\ \E i \in 1..Len(h.args) : h.args[i] = NoneType

\* the hint with None taken out of its union
WithoutNone(h) ==
    IF IsUnionWithNone(h)
    THEN LET rest == SelectSeq(h.args, LAMBDA a : a # NoneType)
         IN  IF Len(rest) = 1 THEN rest[1] ELSE UnionOf(rest)
    ELSE h

\* the trial parameter of the declared Binding of field i
Trial(i) == StubOf(DeclaredCall(i), DeclaredKwargs(i))

\* how often name occurs in args
Occurrences(args, name) == Cardinality({n \in 1..Len(args) : args[n] = name})

\* the registry a decoration consults: the override merged on top
Merged(reg, type_inferences) ==
    IF type_inferences.given
    THEN [x \in DOMAIN reg \cup DOMAIN type_inferences.value |->
             IF x \in DOMAIN type_inferences.value
             THEN type_inferences.value[x]
             ELSE reg[x]]
    ELSE reg

----------------------------------------------------------------------------
(* Annotations and Field Tables across decorations *)

ResolvedFromDeclared(e, rc, rk, dc, dk) ==
    /\ rc.callable = dc.callable
    /\ rc.args[1] = e.key
    /\ Occurrences(rc.args, e.key) = 1
    /\ Len(rc.args) \in {Len(dc.args) + 1, Len(dc.args) + 2}
    /\ SubSeq(rc.args, Len(rc.args) - Len(dc.args) + 1, Len(rc.args)) = dc.args
    /\ DOMAIN dk \subseteq DOMAIN rk
    /\ DOMAIN rk \ DOMAIN dk \subseteq {"type", "required"}
    /\ \A x \in DOMAIN dk : rk[x] = dk[x]

(* C1: binding the record type again never changes the Binding stored in a *)
(* field's annotation (its args and kwargs stay what the user declared),   *)
(* never changes what an earlier decoration resolved, and every resolved   *)
(* Binding has the field name first and exactly once, with nothing added   *)
(* to the declared arguments but at most one flag name, `type`, `required`.*)
C1_AnnotationsNeverChange ==
    [][ /\ \A r \in DOMAIN calls :
            r[1] = 0 => /\ r \in DOMAIN calls'
                        /\ calls'[r] = calls[r]
                        /\ dicts'[calls[r].kwargs] = dicts[calls[r].kwargs]
        /\ \A d \in 1..Len(decs) :
            /\ decs'[d].closure = decs[d].closure
            /\ \A e \in Entries(d) :
                  /\ calls'[e.ref] = calls[e.ref]
                  /\ dicts'[calls[e.ref].kwargs] = dicts[calls[e.ref].kwargs]
        /\ \A d \in 1..Len(decs') :
            \A k \in 1..Len(decs'[d].closure.annotations) :
                LET e == decs'[d].closure.annotations[k]
                    dref == cls[e.field].meta[FirstCall(cls[e.field])].ref
                IN  /\ e.ref[1] = d
                    /\ ResolvedFromDeclared(e, calls'[e.ref], dicts'[calls'[e.ref].kwargs],
                                            calls[dref], dicts[calls[dref].kwargs])
      ]_vars

\* two decorations of the same record type, each with an inferred type, an
\* inferred required and a synthesized name, and the annotation as declared
C1_Witness ==
    /\ Len(decs) = 2
    /\ \E e1 \in Entries(1), e2 \in Entries(2) :
          /\ e1.field = e2.field
          /\ DeclaredKwargs(e1.field) = EmptyDict
          /\ DeclaredCall(e1.field).args = <<>>
          /\ ResolvedKwargs(e1) = ResolvedKwargs(e2)
          /\ DOMAIN ResolvedKwargs(e2) = {"type", "required"}
          /\ ResolvedCall(e2).args = <<e2.key, _option_name(e2.key)>>

----------------------------------------------------------------------------
(* The inference error at decoration time *)

\* the fields that carry a Binding
Bound == {i \in 1..Len(cls) : FirstCall(cls[i]) # 0}

\* field i has no explicit type= and its trial parameter is no boolean flag
WantsInference(i) ==
    /\ "type" \notin DOMAIN DeclaredKwargs(i)
    /\ ~Trial(i).is_flag

\* the trial parameter of field i takes one value
SingleValued(i) == ~Trial(i).multiple /\ Trial(i).nargs = 1

\* C2 as stated: a decoration raises the inference error whenever some
\* annotated field has no explicit type=, is no flag and has a hint (None
\* taken out) that is no key of the registry in effect; the error never
\* names a field with type= or a flag; and the decoration succeeds once the
\* hint of every such field is a key of the registry in effect.
C2_AsStated ==
    [][ last'.op = "dataclass_click" =>
        LET complete == Merged(registry, last'.type_inferences)
            known(i) == WithoutNone(cls[i].hint) \in DOMAIN complete
        IN  /\ (\E i \in Bound : WantsInference(i) /\ ~known(i))
                   => last'.raised = "TypeError"
            /\ last'.raised = "TypeError"
                   => \E i \in Bound : cls[i].name = last'.key /\ WantsInference(i)
            /\ (\A i \in Bound : WantsInference(i) => known(i))
                   => last'.raised = ""
      ]_vars

\* C2, amended: the same, for the fields whose trial parameter takes one
\* value (not `multiple`, arity 1).
C2_InferenceErrorAtDecoration ==
    [][ last'.op = "dataclass_click" =>
        LET complete == Merged(registry, last'.type_inferences)
            known(i) == WithoutNone(cls[i].hint) \in DOMAIN complete
        IN  /\ (\E i \in Bound : WantsInference(i) /\ SingleValued(i) /\ ~known(i))
                   => last'.raised = "TypeError"
            /\ last'.raised = "TypeError"
                   => \E i \in Bound : cls[i].name = last'.key /\ WantsInference(i)
            /\ (\A i \in Bound : WantsInference(i) => SingleValued(i) /\ known(i))
                   => last'.raised = ""
      ]_vars

\* a decoration without overrides succeeds for a field of a type that only
\* a registration made known
C2_Witness ==
    /\ last.op = "dataclass_click"
    /\ last.raised = ""
    /\ ~last.type_inferences.given
    /\ T_Decimal \notin DOMAIN BuiltinInference
    /\ T_Decimal \in DOMAIN registry
    /\ \E i \in Bound :
          /\ cls[i].hint = T_Decimal
          /\ WantsInference(i) /\ SingleValued(i)
          /\ \E e \in Entries(last.slot) :
                e.field = i /\ ResolvedKwargs(e)["type"] = Scalar(registry[T_Decimal])

----------------------------------------------------------------------------
(* What the Requiredness Resolver leaves in a Binding *)

RequiredIsInferred(i) ==
    /\ DeclaredCall(i).callable = OPTION
    /\ ~IsUnionWithNone(cls[i].hint)
    /\ "required" \notin DOMAIN DeclaredKwargs(i)
    /\ "default" \notin DOMAIN DeclaredKwargs(i)
    /\ ~Trial(i).is_flag
    /\ ~Trial(i).multiple

SameKeyword(rk, dk, x) ==
    /\ x \in DOMAIN rk <=> x \in DOMAIN dk
    /\ x \in DOMAIN dk => rk[x] = dk[x]

(* C3: an OPTION Binding gets required=True added if and only if its hint  *)
(* is no union with None, the user set neither `required` nor `default`,   *)
(* and the trial parameter is neither a boolean flag nor `multiple`; in    *)
(* every other case `required` and `default` are what the user supplied.   *)
C3_RequiredInference ==
    \A d \in 1..Len(decs) : \A e \in Entries(d) :
        LET dk == DeclaredKwargs(e.field)
            rk == ResolvedKwargs(e)
        IN  /\ SameKeyword(rk, dk, "default")
            /\ IF RequiredIsInferred(e.field)
               THEN "required" \in DOMAIN rk /\ rk["required"] = TRUE
               ELSE SameKeyword(rk, dk, "required")

\* a decoration inferred required=True for an option of arity 2, which is
\* neither a flag nor `multiple`
C3_Witness ==
    \E d \in 1..Len(decs) : \E e \in Entries(d) :
        /\ RequiredIsInferred(e.field)
        /\ Trial(e.field).nargs = 2
        /\ ResolvedKwargs(e)["required"] = TRUE

----------------------------------------------------------------------------
(* The names of a resolved Binding *)

LooksLikeFlagName(name) == StartsWith(name, <<"-">>)

(* C4: the Name Resolver prepends the synthesized flag name to an OPTION   *)
(* Binding exactly when none of its declared positional arguments starts   *)
(* with `-`; an ARGUMENT Binding never gets one.                           *)
C4_SynthesizedName ==
    \A d \in 1..Len(decs) : \A e \in Entries(d) :
        LET dc == DeclaredCall(e.field)
        IN  ResolvedCall(e).args =
                IF /\ dc.callable = OPTION
                   /\ ~\E n \in 1..Len(dc.args) : LooksLikeFlagName(dc.args[n])
                THEN <<e.key, _option_name(e.key)>> \o dc.args
                ELSE <<e.key>> \o dc.args

----------------------------------------------------------------------------
(* What the factory and the wrapped function receive *)

\* the field names of the Field Table of decoration d
TableKeys(d) == {e.key : e \in Entries(d)}

\* the factory is called with exactly the entries whose key is a field of
\* the Field Table and whose value is not the sentinel (None is passed)
FactoryGetsTheFields(d, kwargs, result) ==
    /\ DOMAIN result.factory_kwargs =
           {k \in TableKeys(d) \cap DOMAIN kwargs : kwargs[k] # DONT_PASS}
    /\ \A k \in DOMAIN result.factory_kwargs : result.factory_kwargs[k] = kwargs[k]

\* C5 as stated: besides, every keyword that is no declared field reaches
\* the wrapped function unchanged, and no declared-field key reaches it.
C5_AsStated ==
    last.op = "wrapper" =>
        /\ FactoryGetsTheFields(last.slot, last.kwargs, last.result)
        /\ last.result.func_called =>
              /\ \A k \in DOMAIN last.kwargs \ TableKeys(last.slot) :
                    /\ k \in DOMAIN last.result.func_kwargs
                    /\ last.result.func_kwargs[k] = last.kwargs[k]
              /\ \A k \in TableKeys(last.slot) : k \notin DOMAIN last.result.func_kwargs

\* C5, amended: the keyword the record is injected under is the exception;
\* the wrapped function receives the record under it whatever else it named.
C5_FactoryAndPassThrough ==
    last.op = "wrapper" =>
        LET kw == decs[last.slot].closure.kw_name
            injected == IF kw.given THEN {kw.value} ELSE {}
        IN  /\ FactoryGetsTheFields(last.slot, last.kwargs, last.result)
            /\ last.result.func_called =>
                  /\ \A k \in (DOMAIN last.kwargs \ TableKeys(last.slot)) \ injected :
                        /\ k \in DOMAIN last.result.func_kwargs
                        /\ last.result.func_kwargs[k] = last.kwargs[k]
                  /\ \A k \in TableKeys(last.slot) \ injected :
                        k \notin DOMAIN last.result.func_kwargs

\* an invocation with a field passed as None, a field passed as the
\* sentinel and a keyword that is no field
C5_Witness ==
    /\ last.op = "wrapper"
    /\ last.result.func_called
    /\ {foo, Ba_z} \subseteq TableKeys(last.slot)
    /\ DOMAIN last.kwargs = {foo, Ba_z, extra}
    /\ last.kwargs[foo] = None
    /\ last.kwargs[Ba_z] = DONT_PASS
    /\ DOMAIN last.result.factory_kwargs = {foo}
    /\ last.result.func_kwargs[extra] = last.kwargs[extra]

----------------------------------------------------------------------------
(* Injection of the record *)

\* the record the factory returned
Record(d, result) ==
    [tag |-> "object", by |-> decs[d].closure.factory_, of |-> result.factory_kwargs]

(* C6: with a keyword name the wrapped function receives the record under  *)
(* that keyword and the wrapper's positional arguments as they were;       *)
(* without one it receives the record first, then the wrapper's positional *)
(* arguments in their order, and no keyword is added.  It returns what the *)
(* wrapped function returned.                                              *)
C6_InjectionModes ==
    (last.op = "wrapper" /\ last.result.func_called) =>
        LET kw == decs[last.slot].closure.kw_name
            r == last.result
        IN  /\ kw.given =>
                  /\ kw.value \in DOMAIN r.func_kwargs
                  /\ r.func_kwargs[kw.value] = Record(last.slot, r)
                  /\ r.func_args = last.args
            /\ ~kw.given =>
                  /\ r.func_args = <<Record(last.slot, r)>> \o last.args
                  /\ DOMAIN r.func_kwargs \subseteq DOMAIN last.kwargs
            /\ r.returned = last.func_ret

\* an invocation in keyword mode with two positional arguments
C6_Witness ==
    /\ last.op = "wrapper"
    /\ last.result.func_called
    /\ decs[last.slot].closure.kw_name = Given(cfg)
    /\ Len(last.args) = 2
    /\ last.result.func_args = last.args
    /\ last.result.func_kwargs[cfg].tag = "object"

----------------------------------------------------------------------------
(* C7: the declarations are applied in reverse field order, so that the    *)
(* engine, which lists parameters outermost declaration first, lists the   *)
(* parameters of the fields in the order the fields are declared.          *)

C7_DeclarationOrder ==
    \A d \in 1..Len(decs) :
        decs[d].applied =>
            LET annotations == decs[d].closure.annotations
                params == CommandParams(decs[d].click_params)
            IN  \A k \in 1..Len(annotations) : params[k].args[1] = annotations[k].key

----------------------------------------------------------------------------
(* Registrations *)

(* C8: a registration for a type already in the registry without           *)
(* override_okay raises ValueError and leaves the registry as it was,      *)
(* de-registration included; a call that does not raise leaves the type    *)
(* mapped to the parameter type given (or without an entry, for None) and  *)
(* every other entry as it was; the conflicting call retried with          *)
(* override_okay succeeds.                                                 *)
C8_RegistrationConflict ==
    [][ last'.op = "register_type_inference" =>
        LET t == last'.python_type
            p == last'.click_param_type
        IN  /\ (t \in DOMAIN registry /\ ~last'.override_okay)
                   => last'.raised = "ValueError"
            /\ last'.raised # "" => registry' = registry
            /\ last'.raised = "" =>
                  /\ IF p = NoParamType
                     THEN t \notin DOMAIN registry'
                     ELSE t \in DOMAIN registry' /\ registry'[t] = p
                  /\ DOMAIN registry' \ {t} = DOMAIN registry \ {t}
                  /\ \A x \in DOMAIN registry \ {t} : registry'[x] = registry[x]
            /\ (t \in DOMAIN registry /\ last'.override_okay) => last'.raised = ""
      ]_vars

\* a built-in entry replaced: the call with override_okay went through
C8_Witness ==
    /\ last.op = "register_type_inference"
    /\ last.python_type = T_int
    /\ last.override_okay
    /\ last.raised = ""
    /\ T_int \in DOMAIN registry
    /\ registry[T_int] = "CUSTOM"
    /\ BuiltinInference[T_int] = "INT"

----------------------------------------------------------------------------
(* Registrations of optional types *)

NoOptionalKey == \A t \in DOMAIN registry : ~IsUnionWithNone(t)

(* C9: a registration for a union containing None raises                   *)
(* NotImplementedError whatever override_okay and click_param_type are and *)
(* leaves the registry as it was; no key of the registry is ever a union   *)
(* containing None.                                                        *)
C9_OptionalRegistration ==
    /\ []NoOptionalKey
    /\ [][ (last'.op = "register_type_inference" /\ IsUnionWithNone(last'.python_type))
              => /\ last'.raised = "NotImplementedError"
                 /\ registry' = registry
         ]_vars

\* the registration of int | None with override_okay=True was refused
C9_Witness ==
    /\ last.op = "register_type_inference"
    /\ last.python_type = Optional(T_int)
    /\ last.override_okay
    /\ last.click_param_type = "CUSTOM"
    /\ last.raised = "NotImplementedError"

----------------------------------------------------------------------------
(* C10: with a per-call override a decoration infers from the process-wide *)
(* registry with the override merged on top (the override wins, a type the *)
(* override lacks resolves as in the registry), and the process-wide       *)
(* registry is the same after the decoration as before, whether the        *)
(* decoration succeeds or raises.                                          *)

C10_OverrideMergedOnTop ==
    [][ last'.op = "dataclass_click" =>
        /\ registry' = registry
        /\ last'.raised = "" =>
              \A k \in 1..Len(decs'[last'.slot].closure.annotations) :
                  LET e == decs'[last'.slot].closure.annotations[k]
                      t == WithoutNone(cls[e.field].hint)
                      ov == last'.type_inferences
                  IN  (WantsInference(e.field) /\ SingleValued(e.field)) =>
                          dicts'[calls'[e.ref].kwargs]["type"] =
                              Scalar(IF ov.given /\ t \in DOMAIN ov.value
                                     THEN ov.value[t]
                                     ELSE registry[t])
      ]_vars

\* an override for int won over the built-in entry, which is still there
C10_Witness ==
    /\ last.op = "dataclass_click"
    /\ last.raised = ""
    /\ last.type_inferences = Given(T_int :> "OVERRIDE")
    /\ T_int \in DOMAIN registry
    /\ registry[T_int] = "INT"
    /\ \E e \in Entries(last.slot) :
          /\ cls[e.field].hint = T_int
          /\ WantsInference(e.field)
          /\ ResolvedKwargs(e)["type"] = Scalar("OVERRIDE")

----------------------------------------------------------------------------
(* Inference for a trial parameter of fixed arity *)

\* the trial parameter of field i takes a fixed number (more than one) of
\* values and is not repeated
FixedArity(i) == ~Trial(i).multiple /\ Trial(i).nargs > 1

\* h is a fixed-size tuple of n member types
IsFixedTuple(h, n) ==
    /\ h.origin = "tuple"
    /\ Len(h.args) = n
    /\ \A k \in 1..Len(h.args) : h.args[k] # Ellipsis

\* every member type of the tuple h is a key of reg
MembersKnown(h, reg) == \A k \in 1..Len(h.args) : h.args[k] \in DOMAIN reg

\* the tuple of the registry entries of the member types of h, in order
MemberEntries(h, reg) == Tuple([k \in 1..Len(h.args) |-> reg[h.args[k]]])

(* C11: for a Binding without explicit type whose trial parameter has      *)
(* fixed arity N > 1, a hint that is a fixed-size tuple of exactly N       *)
(* registered member types gives the tuple of the N registry entries in    *)
(* member order; any other hint (no tuple, a tuple of another length, a    *)
(* member type that is not registered) makes the decoration raise the      *)
(* inference error, and no Binding of arity N gets a tuple of a length     *)
(* other than N.                                                           *)
C11_FixedArityTuple ==
    last.op = "dataclass_click" =>
        LET complete == Merged(registry, last.type_inferences)
        IN  \A i \in Bound :
                (WantsInference(i) /\ FixedArity(i)) =>
                    LET h == WithoutNone(cls[i].hint)
                        n == Trial(i).nargs
                    IN  /\ IF IsFixedTuple(h, n) /\ MembersKnown(h, complete)
                           THEN /\ last.raised = "TypeError" => last.key # cls[i].name
                                /\ last.raised = "" =>
                                       \A e \in Entries(last.slot) :
                                           e.field = i =>
                                               ResolvedKwargs(e)["type"] =
                                                   MemberEntries(h, complete)
                           ELSE last.raised = "TypeError"
                        /\ last.raised = "" =>
                               \A e \in Entries(last.slot) :
                                   e.field = i =>
                                       LET type == ResolvedKwargs(e)["type"]
                                       IN  type.tuple => Len(type.of) = n

----------------------------------------------------------------------------
(* Inference for union hints *)

\* the members of a union other than None
NonNone(h) == SelectSeq(h.args, LAMBDA a : a # NoneType)

\* a union of None with exactly one other type
OnePlusNone(h) == IsUnionWithNone(h) /\ Len(NonNone(h)) = 1

\* a union of two or more types other than None, with or without None
ManyWay(h) == h.origin = "union" /\ Len(NonNone(h)) >= 2

\* the decoration that was the last step treated field i as the Type
\* Inference Engine treats a field of hint T with the same trial parameter
ProceedsOn(i, T, complete) ==
    LET r == _eval_type(T, Trial(i), complete)
    IN  IF r.raised
        THEN last.raised = "TypeError"
        ELSE /\ last.raised = "TypeError" => last.key # cls[i].name
             /\ last.raised = "" =>
                    \A e \in Entries(last.slot) :
                        e.field = i => ResolvedKwargs(e)["type"] = r.value

\* C12 as stated: a union of None with one other type T is inferred as T
\* is; a union of two or more types other than None makes the decoration
\* raise the inference error, whatever the registry in effect contains.
C12_AsStated ==
    last.op = "dataclass_click" =>
        LET complete == Merged(registry, last.type_inferences)
        IN  \A i \in Bound :
                WantsInference(i) =>
                    LET h == cls[i].hint
                    IN  /\ OnePlusNone(h) => ProceedsOn(i, NonNone(h)[1], complete)
                        /\ ManyWay(h) => last.raised = "TypeError"

(* C12, amended: a union of None with one other type T is inferred as T    *)
(* is; a union of two or more types other than None makes the decoration   *)
(* raise the inference error unless the union of those types is itself a   *)
(* key of the registry in effect and the trial parameter takes one value,  *)
(* and then the Binding's type is that registry entry.                     *)
C12_UnionHints ==
    last.op = "dataclass_click" =>
        LET complete == Merged(registry, last.type_inferences)
        IN  \A i \in Bound :
                WantsInference(i) =>
                    LET h == cls[i].hint
                        U == WithoutNone(h)
                    IN  /\ OnePlusNone(h) => ProceedsOn(i, NonNone(h)[1], complete)
                        /\ ManyWay(h) =>
                              IF SingleValued(i) /\ U \in DOMAIN complete
                              THEN /\ last.raised = "TypeError" => last.key # cls[i].name
                                   /\ last.raised = "" =>
                                          \A e \in Entries(last.slot) :
                                              e.field = i =>
                                                  ResolvedKwargs(e)["type"] =
                                                      Scalar(complete[U])
                              ELSE last.raised = "TypeError"

\* a decoration succeeded for a field whose hint is int | str | None, with
\* int | str registered
C12_Witness ==
    /\ last.op = "dataclass_click"
    /\ last.raised = ""
    /\ int_or_str \in DOMAIN registry
    /\ \E i \in Bound :
          /\ WantsInference(i)
          /\ cls[i].hint = UnionOf(<<T_int, T_str, NoneType>>)
          /\ \E e \in Entries(last.slot) :
                e.field = i /\ ResolvedKwargs(e)["type"] = Scalar(registry[int_or_str])

----------------------------------------------------------------------------
(* Inference for a repeated or variadic trial parameter *)

\* the trial parameter of field i is repeated or variadic
Variadic(i) == Trial(i).multiple \/ Trial(i).nargs = -1

\* h has the shape tuple[element type, ...]
IsRepeatedTuple(h) ==
    /\ h.origin = "tuple"
    /\ Len(h.args) = 2
    /\ h.args[2] = Ellipsis

\* what a field of hint E that is not repeated gets: for one value the
\* registry entry of E, and the inference error when E is no key; for a
\* fixed arity above one, what the Type Inference Engine gives a field of
\* hint E and that arity
ElementResult(E, n, reg) ==
    IF n > 1
    THEN _eval_type(E, [is_flag |-> FALSE, multiple |-> FALSE, nargs |-> n], reg)
    ELSE IF E \in DOMAIN reg
         THEN Return(Scalar(reg[E]))
         ELSE RaiseTypeError

====
